---- MODULE Spec2Model ----
(***************************************************************************)
(* Model of scripts/dev.tunnel.ts.  The file holds two variants of the     *)
(* tunnel script:                                                          *)
(*   "slackLocal" (lines 1-360)   spawns the ngrok CLI, toggles            *)
(*       config.json, patches the manifest in place with a .backup file,   *)
(*       runs `slack run`, restores on exit;                               *)
(*   "devTunnel"  (lines 362-507) connects through the ngrok SDK, patches  *)
(*       manifest.json, keeps the original in manifest.temp.json, runs     *)
(*       `pnpm dev`, restores on exit.                                     *)
(* A run is one Node.js process: the main async function and the signal    *)
(* handlers are threads of one event loop.  Code between two awaits runs   *)
(* to completion; a thread standing at a pc of SyncPcs is in the middle of *)
(* such a synchronous stretch and no other thread moves until it has left  *)
(* it.  Every other action is the completion of one asynchronous           *)
(* operation (a file read, a file write, a subprocess event, a signal).    *)
(***************************************************************************)
EXTENDS Integers, Sequences, FiniteSets, TLC

VARIABLES
    script,             \* which variant of the script runs
    args,               \* parseArgs result: [dryRun, persist]
    authtoken,          \* NGROK_AUTH_TOKEN present in the environment
    files0,             \* file contents before the run
    files,              \* file contents now
    written,            \* paths the run has written or unlinked
    recorded,           \* target paths whose backup this run has written
    pc,                 \* position of main (thread 0) and of each handler
    sig,                \* the signal each handler thread serves
    raw,                \* each thread's pending file read, "absent" once written out
    cArgs,              \* devTunnel: arguments of each thread's cleanup call
    cfgChanged,         \* slackLocal
    cfgBackupPath,      \* slackLocal
    ngrokProc,          \* slackLocal: "null" or "proc"
    client,             \* devTunnel: "null" or "listener"
    manifestWasUpdated, \* devTunnel
    isCleaningUp,       \* devTunnel
    tunnel,             \* the tunnel subprocess/service: none, running, exited
    killed,             \* slackLocal: ngrokProc.killed
    devProc,            \* wrapped dev process: none, running, exited
    devCode,            \* exit code of the wrapped dev process
    started,            \* subprocesses/services the run has started
    closeRequests,      \* termination requests sent to the tunnel
    cleanupRuns,        \* teardown executions started by finally or by a signal handler
    err,                \* the failure main has thrown, "none" if none
    now,                \* polls of the tunnel status endpoint so far
    exitCode,           \* process.exitCode
    exited,             \* the process has ended
    exitStatus,         \* its exit status
    ro,                 \* replaceOrigin under test: its inputs and results
    loaded,             \* patch pass under test: the manifest as read
    manifest,           \* the manifest in memory
    tunnelUrl,          \* the tunnel URL it is patched with
    targets,            \* collectTargets result
    patchedKeys,        \* main's patchedKeys
    edits,              \* the set() calls of the pass: [path, old, new]
    ew,                 \* expandWildcards under test: [path, out]
    threw,              \* updateManifest threw
    pstep,              \* position of the patch pass under test
    gt                  \* getTunnelUrl: [phase, data, msg]

envVars  == <<script, args, authtoken, files0>>
fsVars   == <<files, written, recorded>>
thrVars  == <<pc, sig, raw, cArgs>>
cliVars  == <<cfgChanged, cfgBackupPath, ngrokProc, killed>>
sdkVars  == <<client, manifestWasUpdated, isCleaningUp>>
procVars == <<tunnel, devProc, devCode, started, closeRequests>>
exitVars == <<exitCode, exited, exitStatus>>
originVars == <<ro>>
\* the state of the pure functions under test; no step of a run touches it
patchVars == <<loaded, manifest, tunnelUrl, targets, patchedKeys, edits, ew, threw, pstep>>
pollVars == <<gt>>
pureVars == <<originVars, patchVars, pollVars>>
vars == <<envVars, fsVars, thrVars, cliVars, sdkVars, procVars, exitVars,
          cleanupRuns, err, now, pureVars>>

----------------------------------------------------------------------------
(* Bounds *)

\* signals delivered to one run
MaxSignals == 1
\* polls of the status endpoint that fit before the deadline of getTunnelUrl
TimeoutTicks == 1

----------------------------------------------------------------------------
(* Names *)

Scripts == {"slackLocal", "devTunnel"}
Signals == {"SIGINT", "SIGTERM"}
DevCodes == {0, 1, 2}

manifestPath       == "manifest.json"
manifestBackupPath == "manifest.json.backup"
cfgPath            == "config.json"
cfgBackup          == "config.json.backup"
tempManifestPath   == "manifest.temp.json"
FileNames == {manifestPath, manifestBackupPath, cfgPath, cfgBackup, tempManifestPath}

Threads  == 0..MaxSignals
Handlers == 1..MaxSignals

\* positions inside a synchronous stretch of code
SyncPcs == {"catch", "fin", "cl_entry", "cfg_check", "kill", "cl_return"}

Quiescent == \A t \in Threads : pc[t] \notin SyncPcs

\* the event loop can take the next event
Ready == ~exited /\ Quiescent

SignalCode(s) == IF s = "SIGINT" THEN 130 ELSE 143

----------------------------------------------------------------------------
(* Initial state: before the first statement of the script *)

RunInit ==
    /\ script \in Scripts
    /\ args \in [dryRun : BOOLEAN, persist : BOOLEAN]
    /\ script = "devTunnel" => (~args.dryRun /\ ~args.persist)
    /\ authtoken \in BOOLEAN
    /\ files0 \in [FileNames -> {"absent", "orig", "bad", "patched", "stale", "remote", "local"}]
    /\ files0[manifestPath] \in
          IF script = "slackLocal" THEN {"orig", "bad"} ELSE {"orig", "bad", "patched"}
    /\ files0[manifestBackupPath] \in
          IF script = "slackLocal" THEN {"absent", "stale"} ELSE {"absent"}
    /\ files0[cfgPath] \in
          IF script = "slackLocal" THEN {"absent", "remote", "local"} ELSE {"remote"}
    /\ files0[cfgBackup] = "absent"
    /\ files0[tempManifestPath] \in
          IF script = "devTunnel" THEN {"absent", "stale"} ELSE {"absent"}
    /\ files = files0
    /\ written = {}
    /\ recorded = {}
    /\ pc = [t \in Threads |-> IF t = 0 THEN "start" ELSE "idle"]
    /\ sig = [t \in Handlers |-> "none"]
    /\ raw = [t \in Threads |-> "absent"]
    /\ cArgs = [t \in Threads |-> [client |-> "null", manifestWasUpdated |-> FALSE]]
    /\ cfgChanged = FALSE
    /\ cfgBackupPath = "undefined"
    /\ ngrokProc = "null"
    /\ client = "null"
    /\ manifestWasUpdated = FALSE
    /\ isCleaningUp = FALSE
    /\ tunnel = "none"
    /\ killed = FALSE
    /\ devProc = "none"
    /\ devCode = 0
    /\ started = {}
    /\ closeRequests = 0
    /\ cleanupRuns = 0
    /\ err = "none"
    /\ now = 0
    /\ exitCode = 0
    /\ exited = FALSE
    /\ exitStatus = 0

----------------------------------------------------------------------------
(* Helpers *)

Goto(t, p) == pc' = [pc EXCEPT ![t] = p]

\* fs.writeFile(f, c)
WriteFile(f, c) ==
    /\ files' = [files EXCEPT ![f] = c]
    /\ written' = written \cup {f}

\* fs.unlink(f)
Unlink(f) == WriteFile(f, "absent")

\* process.exit(status), or the event loop running empty.  slackLocal has a
\* process "exit" hook that calls cleanup() once more: that call stops at its
\* first await (under --persist it returns at once), the process is gone
\* before any file operation of it completes, so it changes nothing and is
\* not counted in cleanupRuns.
ProcessExit(status) ==
    /\ exited' = TRUE
    /\ exitStatus' = status
    /\ cleanupRuns' = cleanupRuns

\* an error thrown inside main's try block
Throw(e) ==
    /\ err' = e
    /\ Goto(0, "catch")

----------------------------------------------------------------------------
(* slackLocal: main *)

\* main up to its first await: parseArgs, the signal and exit hooks, and the
\* call of maybeToggleConfigToLocal.  No credential is looked at.
Startup ==
    /\ Ready /\ script = "slackLocal" /\ pc[0] = "start"
    /\ Goto(0, "toggle_read")
    /\ UNCHANGED <<pureVars, envVars, fsVars, sig, raw, cArgs, cliVars, sdkVars, procVars,
                   exitVars, cleanupRuns, err, now>>

\* maybeToggleConfigToLocal: read and parse config.json
ToggleRead ==
    /\ Ready /\ pc[0] = "toggle_read"
    /\ IF files[cfgPath] = "remote"
         THEN /\ raw' = [raw EXCEPT ![0] = files[cfgPath]]
              /\ Goto(0, "toggle_backup")
         ELSE \* absent, unparseable, or already "local": { changed: false }
              /\ raw' = raw
              /\ Goto(0, "read_manifest")
    /\ UNCHANGED <<pureVars, envVars, fsVars, sig, cArgs, cliVars, sdkVars, procVars,
                   exitVars, cleanupRuns, err, now>>

\* maybeToggleConfigToLocal: write config.json.backup
ToggleBackup ==
    /\ Ready /\ pc[0] = "toggle_backup"
    /\ WriteFile(cfgBackup, raw[0])
    /\ raw' = [raw EXCEPT ![0] = "absent"]
    /\ recorded' = recorded \cup {cfgPath}
    /\ Goto(0, "toggle_write")
    /\ UNCHANGED <<pureVars, envVars, sig, cArgs, cliVars, sdkVars, procVars,
                   exitVars, cleanupRuns, err, now>>

\* maybeToggleConfigToLocal: write config.json, return { changed: true };
\* main records the result and calls readJSON
ToggleWrite ==
    /\ Ready /\ pc[0] = "toggle_write"
    /\ WriteFile(cfgPath, "toggled")
    /\ cfgChanged' = TRUE
    /\ cfgBackupPath' = cfgBackup
    /\ Goto(0, "read_manifest")
    /\ UNCHANGED <<pureVars, envVars, recorded, sig, raw, cArgs, ngrokProc, killed, sdkVars,
                   procVars, exitVars, cleanupRuns, err, now>>

\* readJSON(manifestPath), then startNgrok unless --dry-run; under --dry-run the
\* patch is computed in memory, the summary printed, and main returns
ReadManifest ==
    /\ Ready /\ pc[0] = "read_manifest"
    /\ IF files[manifestPath] \in {"absent", "bad"}
         THEN /\ Throw("manifest")
              /\ UNCHANGED <<ngrokProc, tunnel, started>>
         ELSE IF args.dryRun
           THEN /\ Goto(0, "fin")
                /\ UNCHANGED <<err, ngrokProc, tunnel, started>>
           ELSE /\ ngrokProc' = "proc"
                /\ tunnel' = "running"
                /\ started' = started \cup {"ngrok"}
                /\ Goto(0, "poll")
                /\ err' = err
    /\ UNCHANGED <<pureVars, envVars, fsVars, sig, raw, cArgs, cfgChanged, cfgBackupPath, killed,
                   sdkVars, devProc, devCode, closeRequests, exitVars, cleanupRuns, now>>

\* getTunnelUrl: the status endpoint reports an https tunnel; main patches the
\* manifest in memory and starts reading the manifest file for the backup
PollReady ==
    /\ Ready /\ pc[0] = "poll"
    /\ tunnel = "running"
    /\ Goto(0, "backup_read")
    /\ UNCHANGED <<pureVars, envVars, fsVars, sig, raw, cArgs, cliVars, sdkVars, procVars,
                   exitVars, cleanupRuns, err, now>>

\* getTunnelUrl: no https tunnel yet and the deadline has not passed
PollRetry ==
    /\ Ready /\ pc[0] = "poll"
    /\ ~(now > TimeoutTicks)
    /\ now' = now + 1
    /\ UNCHANGED <<pureVars, envVars, fsVars, thrVars, cliVars, sdkVars, procVars, exitVars,
                   cleanupRuns, err>>

\* getTunnelUrl: no https tunnel and the deadline has passed
PollTimeout ==
    /\ Ready /\ pc[0] = "poll"
    /\ now > TimeoutTicks
    /\ Throw("timeout")
    /\ UNCHANGED <<pureVars, envVars, fsVars, sig, raw, cArgs, cliVars, sdkVars, procVars,
                   exitVars, cleanupRuns, now>>

\* backup: fs.readFile(manifestPath); a failure is swallowed
BackupRead ==
    /\ Ready /\ pc[0] = "backup_read"
    /\ raw' = [raw EXCEPT ![0] = files[manifestPath]]
    /\ Goto(0, IF files[manifestPath] = "absent" THEN "write_manifest" ELSE "backup_write")
    /\ UNCHANGED <<pureVars, envVars, fsVars, sig, cArgs, cliVars, sdkVars, procVars,
                   exitVars, cleanupRuns, err, now>>

\* backup: mkdir tempDir and fs.writeFile(manifestBackupPath, raw)
BackupWrite ==
    /\ Ready /\ pc[0] = "backup_write"
    /\ WriteFile(manifestBackupPath, raw[0])
    /\ raw' = [raw EXCEPT ![0] = "absent"]
    /\ recorded' = recorded \cup {manifestPath}
    /\ Goto(0, "write_manifest")
    /\ UNCHANGED <<pureVars, envVars, sig, cArgs, cliVars, sdkVars, procVars,
                   exitVars, cleanupRuns, err, now>>

\* writeJSON(tempManifestPath, manifest), the summary line, spawn("slack", ["run"])
WriteManifest ==
    /\ Ready /\ pc[0] = "write_manifest"
    /\ WriteFile(manifestPath, "patched")
    /\ devProc' = "running"
    /\ started' = started \cup {"slack"}
    /\ Goto(0, "await_dev")
    /\ UNCHANGED <<pureVars, envVars, recorded, sig, raw, cArgs, cliVars, sdkVars, tunnel, devCode,
                   closeRequests, exitVars, cleanupRuns, err, now>>

\* "Let ngrok fail loudly if not installed/auth'd": the ngrok subprocess ends
\* by itself while main waits for its url
NgrokFails ==
    /\ Ready /\ pc[0] = "poll"
    /\ tunnel = "running"
    /\ tunnel' = "exited"
    /\ UNCHANGED <<pureVars, envVars, fsVars, thrVars, cliVars, sdkVars, devProc, devCode, started,
                   closeRequests, exitVars, cleanupRuns, err, now>>

----------------------------------------------------------------------------
(* devTunnel: main *)

\* mutant of authtokenMissing: the token is never found missing
authtokenMissing_unchecked == FALSE

\* the module-level check of NGROK_AUTH_TOKEN
authtokenMissing == ~authtoken

\* module level and main up to its first await: the token check (an uncaught
\* throw ends the process with status 1), the signal hooks, startNgrok()
LoadModule ==
    /\ Ready /\ script = "devTunnel" /\ pc[0] = "start"
    /\ IF authtokenMissing
         THEN ProcessExit(1) /\ UNCHANGED <<pc, exitCode>>
         ELSE Goto(0, "connect") /\ UNCHANGED <<exitVars, cleanupRuns>>
    /\ UNCHANGED <<pureVars, envVars, fsVars, sig, raw, cArgs, cliVars, sdkVars, procVars, err, now>>

\* ngrok.connect settles.  With a listener, updateManifest(client.url()) starts:
\* without a url it returns { updated: false } and the dev command is spawned
Connect ==
    /\ Ready /\ pc[0] = "connect"
    /\ \/ /\ Throw("connect")
          /\ UNCHANGED <<client, tunnel, started, devProc>>
       \/ /\ client' = "listener"
          /\ tunnel' = "running"
          /\ err' = err
          /\ \/ /\ Goto(0, "um_read")
                /\ started' = started \cup {"ngrok"}
                /\ devProc' = devProc
             \/ /\ Goto(0, "await_dev")
                /\ started' = started \cup {"ngrok", "dev"}
                /\ devProc' = "running"
    /\ UNCHANGED <<pureVars, envVars, fsVars, sig, raw, cArgs, cliVars, manifestWasUpdated,
                   isCleaningUp, devCode, closeRequests, exitVars, cleanupRuns, now>>

\* updateManifest: read and parse manifest.json, compare the current url
UpdateRead ==
    /\ Ready /\ pc[0] = "um_read"
    /\ IF files[manifestPath] \in {"absent", "bad"}
         THEN /\ Throw("manifest")
              /\ UNCHANGED <<raw, started, devProc>>
         ELSE IF files[manifestPath] = "patched"
           THEN \* currentUrl === newUrl: { updated: false }, spawn the dev command
                /\ Goto(0, "await_dev")
                /\ started' = started \cup {"dev"}
                /\ devProc' = "running"
                /\ UNCHANGED <<raw, err>>
           ELSE /\ raw' = [raw EXCEPT ![0] = files[manifestPath]]
                /\ Goto(0, "um_write")
                /\ UNCHANGED <<err, started, devProc>>
    /\ UNCHANGED <<pureVars, envVars, fsVars, sig, cArgs, cliVars, sdkVars, tunnel, devCode,
                   closeRequests, exitVars, cleanupRuns, now>>

\* updateManifest: write the patched manifest, return { updated: true,
\* originalContent }; main sets manifestWasUpdated and calls backupManifest
UpdateWrite ==
    /\ Ready /\ pc[0] = "um_write"
    /\ WriteFile(manifestPath, "patched")
    /\ manifestWasUpdated' = TRUE
    /\ Goto(0, "bk_write")
    /\ UNCHANGED <<pureVars, envVars, recorded, sig, raw, cArgs, cliVars, client, isCleaningUp,
                   procVars, exitVars, cleanupRuns, err, now>>

\* backupManifest(originalContent), then runDevCommand()
BackupManifest ==
    /\ Ready /\ pc[0] = "bk_write"
    /\ WriteFile(tempManifestPath, raw[0])
    /\ raw' = [raw EXCEPT ![0] = "absent"]
    /\ recorded' = recorded \cup {manifestPath}
    /\ devProc' = "running"
    /\ started' = started \cup {"dev"}
    /\ Goto(0, "await_dev")
    /\ UNCHANGED <<pureVars, envVars, sig, cArgs, cliVars, sdkVars, tunnel, devCode,
                   closeRequests, exitVars, cleanupRuns, err, now>>

----------------------------------------------------------------------------
(* both scripts: the wrapped process, catch, finally *)

\* the wrapped process exits with code c.  slackLocal resolves on 0 and rejects
\* otherwise; devTunnel resolves on every code
DevExit(c) ==
    /\ Ready /\ pc[0] = "await_dev" /\ devProc = "running"
    /\ devProc' = "exited"
    /\ devCode' = c
    /\ IF script = "slackLocal" /\ c # 0
         THEN Throw("child")
         ELSE Goto(0, "fin") /\ err' = err
    /\ UNCHANGED <<pureVars, envVars, fsVars, sig, raw, cArgs, cliVars, sdkVars, tunnel, started,
                   closeRequests, exitVars, cleanupRuns, now>>

\* the catch block: report the error; slackLocal sets process.exitCode = 1
Catch ==
    /\ ~exited /\ pc[0] = "catch"
    /\ exitCode' = IF script = "slackLocal" THEN 1 ELSE exitCode
    /\ Goto(0, "fin")
    /\ UNCHANGED <<pureVars, envVars, fsVars, sig, raw, cArgs, cliVars, sdkVars, procVars,
                   exited, exitStatus, cleanupRuns, err, now>>

\* the finally block: slackLocal calls cleanup(); devTunnel calls
\* cleanup(client, manifestWasUpdated) unless isCleaningUp
Finally ==
    /\ ~exited /\ pc[0] = "fin"
    /\ IF script = "devTunnel" /\ isCleaningUp
         THEN Goto(0, "done") /\ cArgs' = cArgs
         ELSE /\ Goto(0, "cl_entry")
              /\ cArgs' = [cArgs EXCEPT ![0] =
                    [client |-> client, manifestWasUpdated |-> manifestWasUpdated]]
    /\ UNCHANGED <<pureVars, envVars, fsVars, sig, raw, cliVars, sdkVars, procVars,
                   exitVars, cleanupRuns, err, now>>

----------------------------------------------------------------------------
(* slackLocal: cleanup and restoreFile, run by thread t *)

\* restoreFile: fs.readFile(backupPath); a missing backup is swallowed
restoreFileRead(t, backupPath, onRead, onDone) ==
    IF files[backupPath] = "absent"
      THEN Goto(t, onDone) /\ raw' = raw
      ELSE Goto(t, onRead) /\ raw' = [raw EXCEPT ![t] = files[backupPath]]

\* restoreFile: fs.writeFile(targetPath, raw)
restoreFileWrite(t, targetPath) ==
    /\ WriteFile(targetPath, raw[t])
    /\ raw' = [raw EXCEPT ![t] = "absent"]

\* restoreFile: fs.unlink(backupPath).catch(() => {})
restoreFileUnlink(backupPath) ==
    IF files[backupPath] = "absent"
      THEN UNCHANGED <<files, written>>
      ELSE Unlink(backupPath)

\* cleanup is entered: the call counts, --persist returns at once (slackLocal);
\* devTunnel starts with client.close() when it was handed a client
CleanupEntry(t) ==
    /\ ~exited /\ pc[t] = "cl_entry"
    /\ cleanupRuns' = cleanupRuns + 1
    /\ IF script = "slackLocal"
         THEN Goto(t, IF args.persist THEN "cl_return" ELSE "m_read")
         ELSE Goto(t, IF cArgs[t].client # "null" THEN "b_close"
                      ELSE IF cArgs[t].manifestWasUpdated THEN "b_read"
                      ELSE "cl_return")
    /\ UNCHANGED <<pureVars, envVars, fsVars, sig, raw, cArgs, cliVars, sdkVars, procVars,
                   exitVars, err, now>>

\* restoreFile(manifestBackupPath, manifestPath): read
RestoreManifestRead(t) ==
    /\ Ready /\ pc[t] = "m_read"
    /\ restoreFileRead(t, manifestBackupPath, "m_write", "cfg_check")
    /\ UNCHANGED <<pureVars, envVars, fsVars, sig, cArgs, cliVars, sdkVars, procVars,
                   exitVars, cleanupRuns, err, now>>

\* restoreFile(manifestBackupPath, manifestPath): write
RestoreManifestWrite(t) ==
    /\ Ready /\ pc[t] = "m_write"
    /\ restoreFileWrite(t, manifestPath)
    /\ Goto(t, "m_unlink")
    /\ UNCHANGED <<pureVars, envVars, recorded, sig, cArgs, cliVars, sdkVars, procVars,
                   exitVars, cleanupRuns, err, now>>

\* restoreFile(manifestBackupPath, manifestPath): unlink
RestoreManifestUnlink(t) ==
    /\ Ready /\ pc[t] = "m_unlink"
    /\ restoreFileUnlink(manifestBackupPath)
    /\ Goto(t, "cfg_check")
    /\ UNCHANGED <<pureVars, envVars, recorded, sig, raw, cArgs, cliVars, sdkVars, procVars,
                   exitVars, cleanupRuns, err, now>>

\* cleanup: if (cfgChanged) restoreFile(cfgBackupPath, config.json)
CfgCheck(t) ==
    /\ ~exited /\ pc[t] = "cfg_check"
    /\ Goto(t, IF cfgChanged /\ cfgBackupPath # "undefined" THEN "c_read" ELSE "kill")
    /\ UNCHANGED <<pureVars, envVars, fsVars, sig, raw, cArgs, cliVars, sdkVars, procVars,
                   exitVars, cleanupRuns, err, now>>

\* restoreFile(cfgBackupPath, config.json): read
RestoreCfgRead(t) ==
    /\ Ready /\ pc[t] = "c_read"
    /\ restoreFileRead(t, cfgBackupPath, "c_write", "kill")
    /\ UNCHANGED <<pureVars, envVars, fsVars, sig, cArgs, cliVars, sdkVars, procVars,
                   exitVars, cleanupRuns, err, now>>

\* restoreFile(cfgBackupPath, config.json): write
RestoreCfgWrite(t) ==
    /\ Ready /\ pc[t] = "c_write"
    /\ restoreFileWrite(t, cfgPath)
    /\ Goto(t, "c_unlink")
    /\ UNCHANGED <<pureVars, envVars, recorded, sig, cArgs, cliVars, sdkVars, procVars,
                   exitVars, cleanupRuns, err, now>>

\* restoreFile(cfgBackupPath, config.json): unlink
RestoreCfgUnlink(t) ==
    /\ Ready /\ pc[t] = "c_unlink"
    /\ restoreFileUnlink(cfgBackupPath)
    /\ Goto(t, "kill")
    /\ UNCHANGED <<pureVars, envVars, recorded, sig, raw, cArgs, cliVars, sdkVars, procVars,
                   exitVars, cleanupRuns, err, now>>

\* cleanup: if (ngrokProc && !ngrokProc.killed) ngrokProc.kill("SIGTERM");
\* killed becomes true when the signal reached a live subprocess, which then ends
KillNgrok(t) ==
    /\ ~exited /\ pc[t] = "kill"
    /\ IF ngrokProc # "null" /\ ~killed
         THEN /\ closeRequests' = closeRequests + 1
              /\ killed' = (tunnel = "running")
              /\ tunnel' = IF tunnel = "running" THEN "exited" ELSE tunnel
         ELSE UNCHANGED <<closeRequests, killed, tunnel>>
    /\ Goto(t, "cl_return")
    /\ UNCHANGED <<pureVars, envVars, fsVars, sig, raw, cArgs, cfgChanged, cfgBackupPath, ngrokProc,
                   sdkVars, devProc, devCode, started, exitVars, cleanupRuns,
                   err, now>>

----------------------------------------------------------------------------
(* devTunnel: cleanup(client, manifestWasUpdated), run by thread t *)

\* a rejection nobody handles (main() or handleExit rejecting) ends the process
Crash == ProcessExit(1)

\* cleanup: await client.close()
CloseClient(t) ==
    /\ Ready /\ pc[t] = "b_close"
    /\ closeRequests' = closeRequests + 1
    /\ tunnel' = IF tunnel = "running" THEN "exited" ELSE tunnel
    /\ Goto(t, IF cArgs[t].manifestWasUpdated THEN "b_read" ELSE "cl_return")
    /\ UNCHANGED <<pureVars, envVars, fsVars, sig, raw, cArgs, cliVars, sdkVars, devProc, devCode,
                   started, exitVars, cleanupRuns, err, now>>

\* restoreManifest: fs.readFile(manifest.temp.json); a missing file rejects
RestoreTempRead(t) ==
    /\ Ready /\ pc[t] = "b_read"
    /\ IF files[tempManifestPath] = "absent"
         THEN Crash /\ UNCHANGED <<pc, raw, exitCode>>
         ELSE /\ raw' = [raw EXCEPT ![t] = files[tempManifestPath]]
              /\ Goto(t, "b_write")
              /\ UNCHANGED <<exitVars, cleanupRuns>>
    /\ UNCHANGED <<pureVars, envVars, fsVars, sig, cArgs, cliVars, sdkVars, procVars, err, now>>

\* restoreManifest: fs.writeFile(manifest.json, manifest)
RestoreTempWrite(t) ==
    /\ Ready /\ pc[t] = "b_write"
    /\ WriteFile(manifestPath, raw[t])
    /\ raw' = [raw EXCEPT ![t] = "absent"]
    /\ Goto(t, "b_unlink")
    /\ UNCHANGED <<pureVars, envVars, recorded, sig, cArgs, cliVars, sdkVars, procVars,
                   exitVars, cleanupRuns, err, now>>

\* removeTempManifest: fs.unlink(manifest.temp.json); a missing file rejects
RemoveTempManifest(t) ==
    /\ Ready /\ pc[t] = "b_unlink"
    /\ IF files[tempManifestPath] = "absent"
         THEN Crash /\ UNCHANGED <<pc, fsVars, exitCode>>
         ELSE /\ Unlink(tempManifestPath)
              /\ Goto(t, "cl_return")
              /\ UNCHANGED <<recorded, exitVars, cleanupRuns>>
    /\ UNCHANGED <<pureVars, envVars, sig, raw, cArgs, cliVars, sdkVars, procVars, err, now>>

----------------------------------------------------------------------------
(* both scripts: return from cleanup, signals, process end *)

\* the status a signal handler passes to process.exit
HandlerExitStatus(s) == IF script = "slackLocal" THEN SignalCode(s) ELSE 0

\* cleanup returns: main is done; a signal handler calls process.exit
CleanupReturn(t) ==
    /\ ~exited /\ pc[t] = "cl_return"
    /\ IF t = 0
         THEN Goto(0, "done") /\ UNCHANGED <<exitVars, cleanupRuns>>
         ELSE ProcessExit(HandlerExitStatus(sig[t])) /\ UNCHANGED <<pc, exitCode>>
    /\ UNCHANGED <<pureVars, envVars, fsVars, sig, raw, cArgs, cliVars, sdkVars, procVars, err, now>>

\* signal s is delivered; the next free handler thread serves it.  slackLocal
\* calls cleanup(); devTunnel's handleExit returns when isCleaningUp is set and
\* otherwise sets it and calls cleanup(client, manifestWasUpdated)
Signal(s) ==
    /\ Ready /\ pc[0] # "start"
    /\ \E h \in Handlers :
         /\ pc[h] = "idle"
         /\ \A g \in Handlers : g < h => pc[g] # "idle"
         /\ sig' = [sig EXCEPT ![h] = s]
         /\ IF script = "devTunnel" /\ isCleaningUp
              THEN Goto(h, "h_done") /\ UNCHANGED <<cArgs, isCleaningUp>>
              ELSE /\ Goto(h, "cl_entry")
                   /\ isCleaningUp' = (script = "devTunnel")
                   /\ cArgs' = [cArgs EXCEPT ![h] =
                         [client |-> client, manifestWasUpdated |-> manifestWasUpdated]]
    /\ UNCHANGED <<pureVars, envVars, fsVars, raw, cliVars, client, manifestWasUpdated, procVars,
                   exitVars, cleanupRuns, err, now>>

\* nothing keeps the event loop alive: main has returned, no handler is in
\* flight, no subprocess is attached; the process ends with process.exitCode
EventLoopEmpty ==
    /\ Ready /\ pc[0] = "done"
    /\ \A h \in Handlers : pc[h] \in {"idle", "h_done"}
    /\ tunnel # "running" /\ devProc # "running"
    /\ ProcessExit(exitCode)
    /\ UNCHANGED <<pureVars, envVars, fsVars, thrVars, cliVars, sdkVars, procVars, exitCode,
                   err, now>>

----------------------------------------------------------------------------
(* Strings and URLs.  A string is the sequence of its pieces, cut where a   *)
(* URL parser cuts: <<"https", "://", "old.example", ":", "8080", "/cmd",   *)
(* "?a=1", "#x">>.  Any other sequence is a string that is no URL.          *)

\* every variable of a run
runVarsButNow == <<envVars, fsVars, thrVars, cliVars, sdkVars, procVars, exitVars,
                   cleanupRuns, err>>
runVars == <<runVarsButNow, now>>

SpecialSchemes == {"http", "https"}
HostTokens  == {"old.example", "new.ngrok.app"}
PortTokens  == {"80", "443", "8080", "8443"}
PathTokens  == {"/", "/cmd", "/api/slack/events"}
QueryTokens == {"?a=1"}
FragTokens  == {"#x"}

DefaultPort(scheme) == IF scheme = "http" THEN "80" ELSE "443"

Drop(s, n) == SubSeq(s, n + 1, Len(s))
HasAt(s, i, S) == Len(s) >= i /\ s[i] \in S

\* the written form of a URL; an empty piece is left out
Written(scheme, host, port, path, query, frag) ==
    <<scheme, "://", host>>
      \o (IF port = "" THEN <<>> ELSE <<":", port>>)
      \o (IF path = "" THEN <<>> ELSE <<path>>)
      \o (IF query = "" THEN <<>> ELSE <<query>>)
      \o (IF frag = "" THEN <<>> ELSE <<frag>>)

\* new URL(s): throws (ok = FALSE) unless s is an absolute http(s) URL with a
\* host; drops the scheme's default port and gives an empty path the value "/"
parseURL(s) ==
    LET a == Drop(s, 3)
        hasPort == HasAt(a, 1, {":"}) /\ HasAt(a, 2, PortTokens)
        b == IF hasPort THEN Drop(a, 2) ELSE a
        hasPath == HasAt(b, 1, PathTokens)
        c == IF hasPath THEN Drop(b, 1) ELSE b
        hasQuery == HasAt(c, 1, QueryTokens)
        d == IF hasQuery THEN Drop(c, 1) ELSE c
        hasFrag == HasAt(d, 1, FragTokens)
        e == IF hasFrag THEN Drop(d, 1) ELSE d
    IN  IF /\ HasAt(s, 1, SpecialSchemes) /\ HasAt(s, 2, {"://"})
           /\ HasAt(s, 3, HostTokens) /\ e = <<>>
          THEN [ok |-> TRUE, scheme |-> s[1], host |-> s[3],
                port |-> IF hasPort /\ a[2] # DefaultPort(s[1]) THEN a[2] ELSE "",
                path |-> IF hasPath THEN b[1] ELSE "/",
                query |-> IF hasQuery THEN c[1] ELSE "",
                frag |-> IF hasFrag THEN d[1] ELSE ""]
          ELSE [ok |-> FALSE, scheme |-> "", host |-> "", port |-> "",
                path |-> "", query |-> "", frag |-> ""]

\* u.protocol = scheme: the scheme changes, and a port that is the new
\* scheme's default is dropped
setProtocol(u, scheme) ==
    IF scheme \notin SpecialSchemes THEN u
    ELSE [u EXCEPT !.scheme = scheme,
                   !.port = IF u.port = DefaultPort(scheme) THEN "" ELSE u.port]

\* n.host: the host with the port, if the URL has one
hostOf(n) == [host |-> n.host, port |-> n.port]

\* u.host = h: the host changes; the port changes only when h carries one
setHost(u, h) ==
    [u EXCEPT !.host = h.host,
              !.port = IF h.port = "" THEN u.port
                       ELSE IF h.port = DefaultPort(u.scheme) THEN "" ELSE h.port]

\* u.toString()
toString(u) == Written(u.scheme, u.host, u.port, u.path, u.query, u.frag)

replaceOrigin(url, newOrigin) ==
    LET u == parseURL(url)
        n == parseURL(newOrigin)
    IN  IF ~u.ok \/ ~n.ok THEN url
        ELSE toString(setHost(setProtocol(u, n.scheme), hostOf(n)))

----------------------------------------------------------------------------
(* replaceOrigin applied to bounded inputs *)

\* field values: absolute URLs in every written form, a URL without host, a
\* string that is no URL
Values ==
    {Written(sc, "old.example", po, pa, q, f) :
        sc \in SpecialSchemes, po \in {"", "80", "443", "8080"},
        pa \in {"", "/cmd"}, q \in {"", "?a=1"}, f \in {"", "#x"}}
    \cup {<<"https", "://">>, <<"hello">>}

\* origins: scheme, host and optional port; a string that is no URL
Origins ==
    {Written(sc, "new.ngrok.app", po, "", "", "") :
        sc \in SpecialSchemes, po \in {"", "443", "8443"}}
    \cup {<<"not a url">>}

\* r1 = replaceOrigin(v, o1)
ReplaceOnce ==
    /\ ro.step = "in"
    /\ ro' = [ro EXCEPT !.r1 = replaceOrigin(ro.v, ro.o1), !.step = "once"]
    /\ UNCHANGED <<patchVars, pollVars, runVars>>

\* r12 = replaceOrigin(r1, o2)
ReplaceAgain ==
    /\ ro.step = "once"
    /\ ro' = [ro EXCEPT !.r12 = replaceOrigin(ro.r1, ro.o2), !.step = "again"]
    /\ UNCHANGED <<patchVars, pollVars, runVars>>

\* r2 = replaceOrigin(v, o2)
ReplaceDirect ==
    /\ ro.step = "again"
    /\ ro' = [ro EXCEPT !.r2 = replaceOrigin(ro.v, ro.o2), !.step = "direct"]
    /\ UNCHANGED <<patchVars, pollVars, runVars>>

OriginNext ==
    \/ ReplaceOnce
    \/ ReplaceAgain
    \/ ReplaceDirect

----------------------------------------------------------------------------
(* JSON documents.  A value is [kind, str, kids]: str is the text of a      *)
(* string, kids maps the keys of an object, or the indices "0", "1", .. of  *)
(* an array, to the member values.                                          *)

\* longest array in a manifest
MaxArrayLen == 2

IndexKeys == <<"0", "1", "2", "3">>
\* String(i) of an array index i
IdxKey(i) == IndexKeys[i + 1]
\* typeof k === "number"
IsIndex(k) == \E i \in 1..Len(IndexKeys) : IndexKeys[i] = k

Str(s)    == [kind |-> "string", str |-> s, kids |-> <<>>]
Num       == [kind |-> "number", str |-> <<>>, kids |-> <<>>]
Null      == [kind |-> "null", str |-> <<>>, kids |-> <<>>]
Undefined == [kind |-> "undefined", str |-> <<>>, kids |-> <<>>]
Obj(kids) == [kind |-> "object", str |-> <<>>, kids |-> kids]
\* the array of the elements of sequence s
Arr(s) ==
    [kind |-> "array", str |-> <<>>,
     kids |-> [k \in {IdxKey(i - 1) : i \in 1..Len(s)} |->
                 s[CHOOSE i \in 1..Len(s) : IdxKey(i - 1) = k]]]
\* the object with the members of f that are not undefined
Fields(f) ==
    Obj([k \in {j \in DOMAIN f : f[j].kind # "undefined"} |-> f[k]])

\* v == null
nullish(v) == v.kind \in {"null", "undefined"}
\* Array.isArray(v)
isArray(v) == v.kind = "array"
\* arr.length
length(arr) == Cardinality(DOMAIN arr.kids)

\* cur[key]: undefined for a missing member and for a member of a number; the
\* known paths never index into a string
Member(cur, key) ==
    IF cur.kind \in {"object", "array"} /\ key \in DOMAIN cur.kids
      THEN cur.kids[key]
      ELSE Undefined

RECURSIVE get(_, _)
get(obj, pathArr) ==
    IF pathArr = <<>> THEN obj
    ELSE IF nullish(obj) THEN Undefined
    ELSE get(Member(obj, Head(pathArr)), Tail(pathArr))

\* the container is replaced by one holding the assigned member alone
Assign_dropsSiblings(cur, k, value) ==
    IF cur.kind \in {"object", "array"}
      THEN [cur EXCEPT !.kids = [x \in {k} |-> value]]
      ELSE cur
\* cur[k] = value
Assign(cur, k, value) ==
    IF cur.kind \in {"object", "array"}
      THEN [cur EXCEPT !.kids =
              [x \in (DOMAIN cur.kids) \cup {k} |-> IF x = k THEN value ELSE cur.kids[x]]]
      ELSE cur

RECURSIVE set(_, _, _)
set(obj, pathArr, value) ==
    IF Len(pathArr) = 1 THEN Assign(obj, pathArr[1], value)
    ELSE LET k == pathArr[1]
             cur == IF nullish(Member(obj, k))
                      THEN (IF IsIndex(pathArr[2]) THEN Arr(<<>>) ELSE Obj(<<>>))
                      ELSE Member(obj, k)
         IN  Assign(obj, k, set(cur, Tail(pathArr), value))

\* the wildcard patterns first
KNOWN_PATHS_wildcardsFirst ==
    << <<"features", "slash_commands", "*", "url">>,
       <<"oauth", "redirect_urls", "*">>,
       <<"settings", "event_subscriptions", "request_url">>,
       <<"settings", "interactivity", "request_url">> >>
KNOWN_PATHS ==
    << <<"settings", "event_subscriptions", "request_url">>,
       <<"settings", "interactivity", "request_url">>,
       <<"features", "slash_commands", "*", "url">>,
       <<"oauth", "redirect_urls", "*">> >>

\* path.includes(x)
includes(path, x) == \E i \in 1..Len(path) : path[i] = x

\* path.indexOf(x)
indexOf(path, x) ==
    IF includes(path, x)
      THEN (CHOOSE i \in 1..Len(path) :
                path[i] = x /\ \A j \in 1..(i - 1) : path[j] # x) - 1
      ELSE -1

\* the loop stops one element short
expandWildcards_lastDropped(obj, path) ==
    LET idx == indexOf(path, "*")
        head == SubSeq(path, 1, idx)
        tail == SubSeq(path, idx + 2, Len(path))
        arr == get(obj, head)
    IN  IF idx = -1 THEN <<path>>
        ELSE IF ~isArray(arr) THEN <<>>
        ELSE [i \in 1..(length(arr) - 1) |-> head \o <<IdxKey(i - 1)>> \o tail]
expandWildcards(obj, path) ==
    LET idx == indexOf(path, "*")
        head == SubSeq(path, 1, idx)
        tail == SubSeq(path, idx + 2, Len(path))
        arr == get(obj, head)
    IN  IF idx = -1 THEN <<path>>
        ELSE IF ~isArray(arr) THEN <<>>
        ELSE [i \in 1..length(arr) |-> head \o <<IdxKey(i - 1)>> \o tail]

\* /^https?:\/\//.test(s)
matchesHttp(s) == HasAt(s, 1, {"http", "https"}) /\ HasAt(s, 2, {"://"})

\* collectTargets: the targets of the patterns from the k-th on
RECURSIVE collectFrom(_, _)
collectFrom(manifest_, k) ==
    IF k > Len(KNOWN_PATHS) THEN <<>>
    ELSE LET p == KNOWN_PATHS[k]
             expanded == IF includes(p, "*") THEN expandWildcards(manifest_, p) ELSE <<p>>
             IsTarget(pathArr) ==
                 LET v == get(manifest_, pathArr)
                 IN  v.kind = "string" /\ matchesHttp(v.str)
         IN  SelectSeq(expanded, IsTarget) \o collectFrom(manifest_, k + 1)

collectTargets(manifest_) == collectFrom(manifest_, 1)

\* p.map(String).join(".")
RECURSIVE join(_)
join(p) ==
    IF p = <<>> THEN <<>>
    ELSE IF Len(p) = 1 THEN <<p[1]>>
    ELSE <<p[1], ".">> \o join(Tail(p))

\* the test left out
changed_always(updated, current) == TRUE
\* updated !== current
changed(updated, current) == updated # current

\* one iteration of main's patch loop; st = [manifest, patchedKeys, edits],
\* edits lists the set() calls as [path, old, new]
patchOne(st, p, origin) ==
    LET current == get(st.manifest, p)
        updated == replaceOrigin(current.str, origin)
    IN  IF current.kind = "string" /\ changed(updated, current.str)
          THEN [manifest |-> set(st.manifest, p, Str(updated)),
                patchedKeys |-> Append(st.patchedKeys, join(p)),
                edits |-> Append(st.edits,
                                 [path |-> p, old |-> current.str, new |-> updated])]
          ELSE st

RECURSIVE patchAll(_, _, _)
patchAll(st, ts, origin) ==
    IF ts = <<>> THEN st
    ELSE CHOOSE r \in {patchAll(next, Tail(ts), origin) :
                          next \in {patchOne(st, Head(ts), origin)}} : TRUE

\* devTunnel's updateManifest on the parsed document: [threw, json].  Reading a
\* member of undefined or null throws; so does assigning to a member of
\* anything that is no object (the module is strict code)
updateManifest(json, url) ==
    LET newUrl == Str(url \o <<"/api/slack/events">>)
        settings == Member(json, "settings")
        subs == Member(settings, "event_subscriptions")
        currentUrl == Member(subs, "request_url")
        command == Member(Member(Member(json, "features"), "slash_commands"), "0")
        interactivity == Member(settings, "interactivity")
        assignable(v) == v.kind \in {"object", "array"}
    IN  IF nullish(settings) \/ nullish(subs) THEN [threw |-> TRUE, json |-> json]
        ELSE IF currentUrl = newUrl THEN [threw |-> FALSE, json |-> json]
        ELSE IF ~assignable(command) \/ ~assignable(subs) \/ ~assignable(interactivity)
          THEN [threw |-> TRUE, json |-> json]
        ELSE [threw |-> FALSE,
              json |-> set(set(set(json, <<"features", "slash_commands", "0", "url">>, newUrl),
                               <<"settings", "event_subscriptions", "request_url">>, newUrl),
                           <<"settings", "interactivity", "request_url">>, newUrl)]

----------------------------------------------------------------------------
(* The patch pass applied to bounded manifests *)

OldEvents == Written("https", "old.example", "", "/api/slack/events", "", "")
OldCmd    == Written("https", "old.example", "", "/cmd", "", "")
OldBare   == Written("http", "old.example", "8080", "", "", "")
NewCmd    == Written("https", "new.ngrok.app", "", "/cmd", "", "")
Hello     == <<"hello">>

\* the sequences over S of length up to n
SeqsUpTo(S, n) == UNION {[1..m -> S] : m \in 0..n}

SettingsChoices ==
    {Undefined, Num}
    \cup {Fields([event_subscriptions |-> e, interactivity |-> i]) :
            e \in {Undefined, Obj([request_url |-> Str(OldEvents)]),
                   Obj([request_url |-> Str(OldBare)]), Obj([request_url |-> Str(Hello)])},
            i \in {Undefined, Obj(<<>>), Obj([request_url |-> Str(NewCmd)]),
                   Obj([request_url |-> Null])}}

FeaturesChoices ==
    {Undefined, Obj([slash_commands |-> Str(Hello)])}
    \cup {Obj([slash_commands |-> Arr(s)]) :
            s \in SeqsUpTo({Obj([url |-> Str(OldCmd)]), Obj([url |-> Str(Hello)])},
                           MaxArrayLen)}

OauthChoices ==
    {Undefined}
    \cup {Obj([redirect_urls |-> Arr(s)]) : s \in SeqsUpTo({Str(OldCmd), Num}, MaxArrayLen)}

\* manifests: every combination, each with a member no pattern names
\* the manifest of the documented example
ScenarioManifest ==
    Obj([settings |-> Obj([event_subscriptions |-> Obj([request_url |-> Str(OldEvents)])]),
         features |-> Obj([slash_commands |-> Arr(<<Obj([url |-> Str(OldCmd)])>>)])])

Manifests ==
    {ScenarioManifest} \cup
    {Fields([settings |-> s, features |-> f, oauth |-> o,
             display_information |-> Obj([name |-> Str(Hello)])]) :
        s \in SettingsChoices, f \in FeaturesChoices, o \in OauthChoices}

\* tunnel URLs: getTunnelUrl resolves with a string that starts with https://
NewOrigin == Written("https", "new.ngrok.app", "", "", "", "")
TunnelUrls ==
    {NewOrigin, Written("https", "new.ngrok.app", "8443", "", "", ""), <<"https", "://">>}

\* main, lines 283-293, on manifest m with a fresh patchedKeys
patchPass(m, origin) ==
    LET ts == collectTargets(m)
        st == patchAll([manifest |-> m, patchedKeys |-> <<>>, edits |-> <<>>], ts, origin)
    IN  [targets |-> ts, manifest |-> st.manifest, patchedKeys |-> st.patchedKeys,
         edits |-> st.edits]

\* slackLocal patches the manifest it has read
PatchPass ==
    /\ pstep = "in"
    /\ \E r \in {patchPass(manifest, tunnelUrl)} :
           /\ targets' = r.targets
           /\ manifest' = r.manifest
           /\ patchedKeys' = r.patchedKeys
           /\ edits' = r.edits
    /\ pstep' = "patched"
    /\ UNCHANGED <<loaded, tunnelUrl, ew, threw, originVars, pollVars, runVars>>

\* a later run with the same tunnel URL patches the result
PatchAgain ==
    /\ pstep = "patched"
    /\ \E r \in {patchPass(manifest, tunnelUrl)} :
           /\ targets' = r.targets
           /\ manifest' = r.manifest
           /\ patchedKeys' = r.patchedKeys
           /\ edits' = r.edits
    /\ pstep' = "repatched"
    /\ UNCHANGED <<loaded, tunnelUrl, ew, threw, originVars, pollVars, runVars>>

\* devTunnel patches the manifest it has read
UpdateManifestDoc ==
    /\ pstep = "in"
    /\ \E r \in {updateManifest(manifest, tunnelUrl)} :
           manifest' = r.json /\ threw' = r.threw
    /\ pstep' = "updated"
    /\ UNCHANGED <<loaded, tunnelUrl, targets, patchedKeys, edits, ew, originVars, pollVars, runVars>>

\* expandWildcards on the k-th known pattern
ExpandWildcards(k) ==
    /\ pstep = "in"
    /\ ew' = [path |-> KNOWN_PATHS[k], out |-> expandWildcards(manifest, KNOWN_PATHS[k])]
    /\ pstep' = "expanded"
    /\ UNCHANGED <<loaded, manifest, tunnelUrl, targets, patchedKeys, edits, threw,
                   originVars, pollVars, runVars>>

PatchNext ==
    \/ PatchPass
    \/ PatchAgain
    \/ UpdateManifestDoc
    \/ \E k \in 1..Len(KNOWN_PATHS) : ExpandWildcards(k)

----------------------------------------------------------------------------
(* getTunnelUrl in detail: one request to the status endpoint at a time,    *)
(* a 250 ms timer between two requests; now counts the timers that fired.   *)

\* tunnels listed in one response of the status endpoint
MaxTunnels == 2

HttpTunnel  == Written("http", "new.ngrok.app", "", "", "", "")
HttpsTunnel == Written("https", "new.ngrok.app", "", "", "", "")

\* response bodies: text that does not parse, or the public_url of each
\* tunnel listed (a string, a missing member, or a number)
Bodies ==
    {[parses |-> FALSE, tunnels |-> <<>>]}
    \cup {[parses |-> TRUE, tunnels |-> s] :
            s \in SeqsUpTo({Str(HttpTunnel), Str(HttpsTunnel), Undefined, Num}, MaxTunnels)}

\* the state of getTunnelUrl before its first request has completed
NoBody == [parses |-> FALSE, tunnels |-> <<>>]
PollIdle == [phase |-> "request", data |-> NoBody, msg |-> "none"]

\* a public_url of any scheme passes
startsWithHttps_anyScheme(s) == HasAt(s, 2, {"://"})
\* public_url.startsWith("https://")
startsWithHttps(s) == HasAt(s, 1, {"https"}) /\ HasAt(s, 2, {"://"})

\* tunnels.find((t) => t?.public_url?.startsWith("https://")): the first match;
\* a public_url that is neither missing nor a string has no startsWith and
\* the call throws
RECURSIVE findHttps(_)
findHttps(tunnels) ==
    IF tunnels = <<>> THEN [threw |-> FALSE, found |-> FALSE, url |-> <<>>]
    ELSE IF nullish(Head(tunnels)) THEN findHttps(Tail(tunnels))
    ELSE IF Head(tunnels).kind # "string"
      THEN [threw |-> TRUE, found |-> FALSE, url |-> <<>>]
    ELSE IF startsWithHttps(Head(tunnels).str)
      THEN [threw |-> FALSE, found |-> TRUE, url |-> Head(tunnels).str]
    ELSE findHttps(Tail(tunnels))

\* Date.now() > deadline
deadlinePassed == now > TimeoutTicks

\* no url from this attempt: reject after the deadline, else setTimeout(tryOnce, 250)
RetryOrReject(body, msg) ==
    IF deadlinePassed
      THEN /\ gt' = [phase |-> "rejected", data |-> body, msg |-> msg]
           /\ Throw("timeout")
      ELSE /\ gt' = [phase |-> "timer", data |-> body, msg |-> "none"]
           /\ UNCHANGED <<pc, err>>

\* the response of the status endpoint has ended: res.on("end")
StatusResponse(body) ==
    /\ Ready /\ pc[0] = "poll" /\ gt.phase = "request"
    /\ tunnel = "running"
    /\ LET r == findHttps(body.tunnels)
       IN  IF body.parses /\ ~r.threw /\ r.found
             THEN /\ gt' = [phase |-> "resolved", data |-> body, msg |-> "none"]
                  /\ tunnelUrl' = r.url
                  /\ Goto(0, "backup_read")
                  /\ err' = err
             ELSE /\ RetryOrReject(body, IF body.parses /\ ~r.threw
                                           THEN "Tunnel URL not found before timeout"
                                           ELSE "Failed to parse ngrok API response")
                  /\ tunnelUrl' = tunnelUrl
    /\ UNCHANGED <<originVars, loaded, manifest, targets, patchedKeys, edits, ew, threw,
                   pstep, envVars, fsVars, sig, raw, cArgs, cliVars, sdkVars, procVars,
                   exitVars, cleanupRuns, now>>

\* the request failed: .on("error")
StatusError ==
    /\ Ready /\ pc[0] = "poll" /\ gt.phase = "request"
    /\ RetryOrReject(NoBody, "ngrok API not reachable on :4040")
    /\ UNCHANGED <<originVars, patchVars, envVars, fsVars, sig, raw, cArgs, cliVars,
                   sdkVars, procVars, exitVars, cleanupRuns, now>>

\* the 250 ms timer fires: tryOnce sends the next request
TimerFires ==
    /\ Ready /\ pc[0] = "poll" /\ gt.phase = "timer"
    /\ now' = now + 1
    /\ gt' = [gt EXCEPT !.phase = "request"]
    /\ UNCHANGED <<originVars, patchVars, runVarsButNow>>

\* a slackLocal run up to and including getTunnelUrl
PollNext ==
    \/ Startup
    \/ ToggleRead
    \/ ToggleBackup
    \/ ToggleWrite
    \/ ReadManifest
    \/ NgrokFails
    \/ \E body \in Bodies : StatusResponse(body)
    \/ StatusError
    \/ TimerFires

----------------------------------------------------------------------------
(* Initial states and specifications *)

OriginIdle ==
    [v |-> <<>>, o1 |-> <<>>, o2 |-> <<>>, r1 |-> <<>>, r12 |-> <<>>, r2 |-> <<>>,
     step |-> "idle"]

PatchIdle ==
    /\ loaded = Undefined
    /\ manifest = Undefined
    /\ tunnelUrl = <<>>
    /\ targets = <<>>
    /\ patchedKeys = <<>>
    /\ edits = <<>>
    /\ ew = [path |-> <<>>, out |-> <<>>]
    /\ threw = FALSE
    /\ pstep = "idle"

\* a run with every choice fixed, standing before its first statement
RunIdle ==
    /\ RunInit
    /\ script = "devTunnel" /\ authtoken
    /\ files0[manifestPath] = "orig" /\ files0[tempManifestPath] = "absent"

\* a run starts with the pure functions' state idle
Init ==
    /\ RunInit
    /\ ro = OriginIdle
    /\ PatchIdle
    /\ gt = PollIdle

OriginInit ==
    /\ RunIdle
    /\ ro \in [v : Values, o1 : Origins, o2 : Origins, r1 : {<<>>}, r12 : {<<>>},
               r2 : {<<>>}, step : {"in"}]
    /\ PatchIdle
    /\ gt = PollIdle

OriginSpec == OriginInit /\ [][OriginNext]_vars

PatchInit ==
    /\ RunIdle
    /\ ro = OriginIdle
    /\ loaded \in Manifests
    /\ manifest = loaded
    /\ tunnelUrl \in TunnelUrls
    /\ targets = <<>>
    /\ patchedKeys = <<>>
    /\ edits = <<>>
    /\ ew = [path |-> <<>>, out |-> <<>>]
    /\ threw = FALSE
    /\ pstep = "in"
    /\ gt = PollIdle

PatchSpec == PatchInit /\ [][PatchNext]_vars

PollInit ==
    /\ Init
    /\ script = "slackLocal"

\* every request to the status endpoint completes, with a response or with an
\* error, and every timer fires
PollSpec ==
    /\ PollInit /\ [][PollNext]_vars
    /\ WF_vars((\E body \in Bodies : StatusResponse(body)) \/ StatusError)
    /\ WF_vars(TimerFires)

----------------------------------------------------------------------------

Next ==
    \/ Startup
    \/ ToggleRead
    \/ ToggleBackup
    \/ ToggleWrite
    \/ ReadManifest
    \/ PollReady
    \/ PollRetry
    \/ PollTimeout
    \/ BackupRead
    \/ BackupWrite
    \/ WriteManifest
    \/ NgrokFails
    \/ LoadModule
    \/ Connect
    \/ UpdateRead
    \/ UpdateWrite
    \/ BackupManifest
    \/ \E c \in DevCodes : DevExit(c)
    \/ Catch
    \/ Finally
    \/ \E t \in Threads : CleanupEntry(t)
    \/ \E t \in Threads : RestoreManifestRead(t)
    \/ \E t \in Threads : RestoreManifestWrite(t)
    \/ \E t \in Threads : RestoreManifestUnlink(t)
    \/ \E t \in Threads : CfgCheck(t)
    \/ \E t \in Threads : RestoreCfgRead(t)
    \/ \E t \in Threads : RestoreCfgWrite(t)
    \/ \E t \in Threads : RestoreCfgUnlink(t)
    \/ \E t \in Threads : KillNgrok(t)
    \/ \E t \in Threads : CloseClient(t)
    \/ \E t \in Threads : RestoreTempRead(t)
    \/ \E t \in Threads : RestoreTempWrite(t)
    \/ \E t \in Threads : RemoveTempManifest(t)
    \/ \E t \in Threads : CleanupReturn(t)
    \/ \E s \in Signals : Signal(s)
    \/ EventLoopEmpty

Spec == Init /\ [][Next]_vars

----------------------------------------------------------------------------
(* Claims *)

\* the signals delivered so far
Delivered == {sig[h] : h \in {g \in Handlers : sig[g] # "none"}}

\* the backup file of the manifest in the running script
ManifestBackupFile ==
    IF script = "slackLocal" THEN manifestBackupPath ELSE tempManifestPath

\* C1: the teardown routine never executes more than once in a run, and a run
\* that got past module load has executed it exactly once when the process ends.
C1_TeardownExactlyOnce ==
    /\ cleanupRuns <= 1
    /\ (exited /\ pc[0] # "start") => cleanupRuns = 1

\* C2: when the process has ended, the manifest holds its pre-run content
\* (no --persist), or the patched content, or under --persist the untouched
\* pre-run content of a run that never got to patch it.
C2_ManifestEndState ==
    exited =>
        IF args.persist
          THEN \/ files[manifestPath] = "patched"
               \/ (manifestPath \notin written
                    /\ files[manifestPath] = files0[manifestPath])
          ELSE files[manifestPath] = files0[manifestPath]

\* C3: in every state, a manifest or config.json whose content differs from its
\* pre-run content has a backup file holding the pre-run content.
C3_BackupBeforeMutation ==
    /\ files[manifestPath] # files0[manifestPath]
          => files[ManifestBackupFile] = files0[manifestPath]
    /\ files[cfgPath] # files0[cfgPath]
          => files[cfgBackup] = files0[cfgPath]

\* C4: a --dry-run run never writes or unlinks a file and never starts a
\* subprocess.
C4_DryRunNoEffects ==
    args.dryRun => (written = {} /\ started = {} /\ files = files0)

\* C5: a process that ends after signals were delivered ends with the status of
\* one of them: 130 for SIGINT, 143 for SIGTERM.
C5_SignalExitStatus ==
    (exited /\ Delivered # {}) => exitStatus \in {SignalCode(s) : s \in Delivered}

\* C6: when the process has ended and the tunnel had been started, the tunnel
\* was asked to terminate.
C6_TunnelClosedAtExit ==
    (exited /\ "ngrok" \in started) => closeRequests >= 1

\* C7: without signals, a run whose wrapped process exited with code c # 0 ends
\* with status c, and a run without failure ends with status 0.
C7_ExitStatusPropagated ==
    (exited /\ Delivered = {} /\ devProc = "exited") =>
        /\ devCode # 0 => (exitStatus # 0 /\ exitStatus = devCode)
        /\ (devCode = 0 /\ err = "none") => exitStatus = 0

C9_ManifestFailureBeforeMutation ==
    (pc[0] = "catch" /\ err = "manifest") =>
        (written = {} /\ started = {} /\ tunnel = "none")

\* C10: while the run has recorded no backup of the manifest, no step of the
\* teardown changes the manifest file.
C10_RestoreNoopWithoutBackup ==
    [][ (/\ manifestPath \notin recorded
         /\ \E t \in Threads :
               /\ pc[t] \in {"m_read", "m_write", "m_unlink", "b_read", "b_write", "b_unlink"}
               /\ pc'[t] # pc[t])
        => files'[manifestPath] = files[manifestPath] ]_vars

\* C12: for an absolute URL v and an origin o, replaceOrigin(v, o) is a URL
\* with the scheme, host and port of o and the path, query and fragment of v.
C12_OriginReplaced ==
    LET v == parseURL(ro.v)
        o == parseURL(ro.o1)
        r == parseURL(ro.r1)
    IN  (ro.step \in {"once", "again", "direct"} /\ v.ok /\ o.ok) =>
            /\ r.ok
            /\ r.scheme = o.scheme /\ r.host = o.host /\ r.port = o.port
            /\ r.path = v.path /\ r.query = v.query /\ r.frag = v.frag

\* C13: for an absolute URL v and origins o1, o2,
\* replaceOrigin(replaceOrigin(v, o1), o2) = replaceOrigin(v, o2).
C13_OriginOverwritable ==
    (ro.step = "direct" /\ parseURL(ro.v).ok /\ parseURL(ro.o1).ok
        /\ parseURL(ro.o2).ok) => ro.r12 = ro.r2

\* C17: within one teardown execution the tunnel is closed last: once thread t
\* has sent the termination request (its step out of "kill" or "b_close"), no
\* restore step of that execution remains and the routine returns.
C17_CloseAfterRestores ==
    [][ \A t \in Threads :
            (pc[t] \in {"kill", "b_close"} /\ pc'[t] # pc[t])
                => pc'[t] = "cl_return" ]_vars

\* the positions at which a teardown execution awaits a step of a file restore
RestorePcs ==
    {"m_read", "m_write", "m_unlink", "c_read", "c_write", "c_unlink",
     "b_read", "b_write", "b_unlink"}

\* C18: a step taken while a teardown execution awaits a restore step never
\* ends the process: a failing restore is swallowed and the teardown goes on.
C18_RestoreFailureSwallowed ==
    [][ (Quiescent /\ ~exited /\ \E t \in Threads : pc[t] \in RestorePcs)
            => ~exited' ]_vars

\* C19: across all teardown invocations of a run the tunnel receives at most
\* one termination request.
C19_AtMostOneCloseRequest == closeRequests <= 1

\* the member of doc at a path of keys; Undefined where the path leaves doc
RECURSIVE ValueAt(_, _)
ValueAt(doc, path) ==
    IF path = <<>> THEN doc
    ELSE IF doc.kind \in {"object", "array"} /\ Head(path) \in DOMAIN doc.kids
      THEN ValueAt(doc.kids[Head(path)], Tail(path))
      ELSE Undefined

\* the number of elements of the array at path, 0 if there is no array
ArrayLenAt(doc, path) ==
    IF ValueAt(doc, path).kind = "array"
      THEN Cardinality(DOMAIN ValueAt(doc, path).kids)
      ELSE 0

\* the fields the known patterns name in doc: pattern order, then ascending index
KnownFields(doc) ==
    << <<"settings", "event_subscriptions", "request_url">>,
       <<"settings", "interactivity", "request_url">> >>
    \o [i \in 1..ArrayLenAt(doc, <<"features", "slash_commands">>) |->
            <<"features", "slash_commands", IndexKeys[i], "url">>]
    \o [i \in 1..ArrayLenAt(doc, <<"oauth", "redirect_urls">>) |->
            <<"oauth", "redirect_urls", IndexKeys[i]>>]

\* v is a string holding an absolute http(s) URL
IsAbsoluteUrl(v) == v.kind = "string" /\ parseURL(v.str).ok

\* the dotted form of a field path
Dotted(f) ==
    IF Len(f) = 3 THEN <<f[1], ".", f[2], ".", f[3]>>
    ELSE <<f[1], ".", f[2], ".", f[3], ".", f[4]>>

\* C14: every edit of a patch pass replaces a value by a different one, and a
\* second pass on the result with the same origin makes no edit.
C14_PatchFixedPoint ==
    /\ pstep = "patched" =>
          \A i \in DOMAIN edits :
              /\ edits[i].old # edits[i].new
              /\ ValueAt(loaded, edits[i].path) = Str(edits[i].old)
              /\ ValueAt(manifest, edits[i].path) = Str(edits[i].new)
    /\ pstep = "repatched" => (edits = <<>> /\ patchedKeys = <<>>)

\* C14 witness: a second pass has run on a manifest the first pass changed.
C14_Witness == pstep = "repatched" /\ manifest # loaded

\* C15: where the prefix before the wildcard resolves to an array of length n,
\* expandWildcards returns the n paths prefix + index + suffix for the indices
\* 0..n-1 in ascending order; a pattern without wildcard is returned alone.
C15_ExpandWildcards ==
    pstep = "expanded" =>
        LET p == ew.path
            stars == {i \in 1..Len(p) : p[i] = "*"}
            w == CHOOSE i \in stars : \A j \in stars : i <= j
            prefix == SubSeq(p, 1, w - 1)
            suffix == SubSeq(p, w + 1, Len(p))
            n == ArrayLenAt(manifest, prefix)
        IN  IF stars = {} THEN ew.out = <<p>>
            ELSE ValueAt(manifest, prefix).kind = "array" =>
                    /\ Len(ew.out) = n
                    /\ \A i \in 1..n : ew.out[i] = prefix \o <<IndexKeys[i]>> \o suffix

\* C15 witness: a wildcard pattern was expanded over an array of two or more.
C15_Witness ==
    /\ pstep = "expanded"
    /\ Len(ew.out) >= 2
    /\ ew.out[1] # ew.path

\* C16: patchedKeys lists the dotted paths of the known fields that held an
\* absolute http(s) URL and were changed, in pattern order then ascending
\* index; in the documented example it has the two entries and both values
\* keep their path.
C16_PatchedKeys ==
    pstep = "patched" =>
        LET IsChanged(f) ==
                /\ IsAbsoluteUrl(ValueAt(loaded, f))
                /\ ValueAt(manifest, f) # ValueAt(loaded, f)
            fields == SelectSeq(KnownFields(loaded), IsChanged)
        IN  /\ patchedKeys = [i \in 1..Len(fields) |-> Dotted(fields[i])]
            /\ (loaded = ScenarioManifest /\ tunnelUrl = NewOrigin) =>
                  /\ patchedKeys =
                        << <<"settings", ".", "event_subscriptions", ".", "request_url">>,
                           <<"features", ".", "slash_commands", ".", "0", ".", "url">> >>
                  /\ ValueAt(manifest, <<"settings", "event_subscriptions", "request_url">>)
                        = Str(<<"https", "://", "new.ngrok.app", "/api/slack/events">>)
                  /\ ValueAt(manifest, <<"features", "slash_commands", "0", "url">>)
                        = Str(<<"https", "://", "new.ngrok.app", "/cmd">>)

\* C16 witness: the documented example has been patched.
C16_Witness ==
    pstep = "patched" /\ loaded = ScenarioManifest /\ tunnelUrl = NewOrigin

\* some known pattern names a field that the document does not hold as a string
SomePatternUnresolved(doc) ==
    \/ \E i \in DOMAIN KnownFields(doc) : ValueAt(doc, KnownFields(doc)[i]).kind # "string"
    \/ ValueAt(doc, <<"features", "slash_commands">>).kind # "array"
    \/ ValueAt(doc, <<"oauth", "redirect_urls">>).kind # "array"

\* C20: when a known pattern cannot be resolved in the manifest, the patch
\* raises no error, collects no target for it, and every known field that
\* holds an absolute URL is moved to the tunnel's host all the same.
C20_UnresolvedPatternSkipped ==
    (pstep \in {"patched", "updated"} /\ SomePatternUnresolved(loaded)
        /\ parseURL(tunnelUrl).ok) =>
        /\ ~threw
        /\ \A i \in DOMAIN targets : ValueAt(loaded, targets[i]).kind = "string"
        /\ \A i \in DOMAIN KnownFields(loaded) :
              LET f == KnownFields(loaded)[i]
              IN  IsAbsoluteUrl(ValueAt(loaded, f)) =>
                    /\ ValueAt(manifest, f).kind = "string"
                    /\ parseURL(ValueAt(manifest, f).str).host = parseURL(tunnelUrl).host

C21_BackupDeletedAfterWriteBack ==
    [][ /\ (files[ManifestBackupFile] # "absent" /\ files'[ManifestBackupFile] = "absent")
           => files'[manifestPath] = files[ManifestBackupFile]
        /\ (files[cfgBackup] # "absent" /\ files'[cfgBackup] = "absent")
           => files'[cfgPath] = files[cfgBackup] ]_vars

\* document b is document a but for the string values at the paths of ts:
\* below path, both have the same kinds, texts, keys and array lengths
RECURSIVE SameExceptAt(_, _, _, _)
SameExceptAt(a, b, path, ts) ==
    IF \E i \in DOMAIN ts : ts[i] = path
      THEN a.kind = "string" /\ b.kind = "string"
      ELSE /\ a.kind = b.kind
           /\ a.str = b.str
           /\ DOMAIN a.kids = DOMAIN b.kids
           /\ \A k \in DOMAIN a.kids :
                 SameExceptAt(a.kids[k], b.kids[k], Append(path, k), ts)

\* C22: the patch pass changes only the values at the collected target paths:
\* every other member, every key set and every array length of the manifest
\* is the same before and after, and each target holds a string before and
\* after.
C22_PatchFrame ==
    pstep = "patched" =>
        /\ SameExceptAt(loaded, manifest, <<>>, targets)
        /\ \A i \in DOMAIN edits : \E j \in DOMAIN targets : targets[j] = edits[i].path

\* C22 witness: a pass has changed a manifest that also holds members no
\* pattern names, a non-URL string at a known path and an array.
C22_Witness ==
    /\ pstep = "patched"
    /\ manifest # loaded
    /\ ValueAt(loaded, <<"display_information", "name">>).kind = "string"
    /\ ValueAt(loaded, <<"features", "slash_commands", "1", "url">>) = Str(Hello)
    /\ ValueAt(manifest, <<"features", "slash_commands", "0", "url">>)
          # ValueAt(loaded, <<"features", "slash_commands", "0", "url">>)

====
